---- MODULE Spec2Model ----
(***************************************************************************)
(* Model of the LoRaWAN gateway uplink pipeline: node registration         *)
(* (node/node.go newNode) and parseDataUplink with its helpers             *)
(* matchDeviceAddr, decodePayload, convertBinaryToMap and executeDecoder   *)
(* (the gateway package).  Byte slices are modelled with Go's length and   *)
(* capacity, Go errors as chains of messages (<<>> is the nil error), the  *)
(* otto interpreter as a sequence of statement checkpoints, and the        *)
(* watchdog goroutine of executeDecoder as its own process per call.       *)
(***************************************************************************)
EXTENDS Integers, Sequences, FiniteSets, TLC

VARIABLES devices, pc, callNo, frame, dev, parsed, script, taken,
          wd, Interrupt, exec, conv, result, fault

vars == <<devices, pc, callNo, frame, dev, parsed, script, taken,
          wd, Interrupt, exec, conv, result, fault>>

----------------------------------------------------------------------------
(* Bounds of the model *)

MaxCalls == 2

MaxFrameLen == 16

MaxSteps == 2

Calls == 1..MaxCalls

----------------------------------------------------------------------------
(* Go values *)

NoErr == <<>>

Errorf(msg, err) == <<msg>> \o err

NilMap == [isNil |-> TRUE, kv |-> {}]

EmptyMap == [isNil |-> FALSE, kv |-> {}]

GoNil == [type |-> "nil", kv |-> {}]

GoValue(t, kv) == [type |-> t, kv |-> kv]

RECURSIVE BitAnd(_, _)
BitAnd(a, b) ==
  IF a = 0 \/ b = 0 THEN 0
  ELSE (IF a % 2 = 1 /\ b % 2 = 1 THEN 1 ELSE 0) + 2 * BitAnd(a \div 2, b \div 2)

RECURSIVE BitXor(_, _)
BitXor(a, b) ==
  IF a = 0 THEN b
  ELSE IF b = 0 THEN a
  ELSE (IF a % 2 = b % 2 THEN 0 ELSE 1) + 2 * BitXor(a \div 2, b \div 2)

(* A byte slice p: p.buf is the backing array from the slice's start up   *)
(* to its capacity, p.len the slice's length.  s[lo:hi] is legal up to the *)
(* capacity, s[i] up to the length.                                        *)
CanSlice(p, lo, hi) == 0 <= lo /\ lo <= hi /\ hi <= Len(p.buf)

CanIndex(p, i) == 0 <= i /\ i < p.len

At(p, i) == p.buf[i + 1]

SliceBytes(p, lo, hi) == SubSeq(p.buf, lo + 1, hi)

----------------------------------------------------------------------------
(* node/node.go *)

Names == {"n1", "n2"}

HexDigits == <<"0", "1", "2", "3", "4", "5", "6", "7", "8", "9",
               "a", "b", "c", "d", "e", "f">>

IsHexDigit(c) == \E i \in 1..16 : HexDigits[i] = c

HexVal(c) == (CHOOSE i \in 1..16 : HexDigits[i] = c) - 1

(* encoding/hex DecodeString: an odd length or a non-hex character is an   *)
(* error, otherwise one byte per two characters.                           *)
HexDecodeString(s) ==
  IF Len(s) % 2 = 1 \/ \E i \in 1..Len(s) : ~IsHexDigit(s[i])
  THEN [err |-> <<"encoding/hex: invalid string">>, bytes |-> <<>>]
  ELSE [err |-> NoErr,
        bytes |-> [i \in 1..(Len(s) \div 2) |->
                     16 * HexVal(s[2 * i - 1]) + HexVal(s[2 * i])]]

Repeat(pair, n) == [i \in 1..(2 * n) |-> pair[((i - 1) % 2) + 1]]

Config(joinType, devAddr, appSKey, appKey, devEUI) ==
  [JoinType |-> joinType, DevAddr |-> devAddr, AppSKey |-> appSKey,
   AppKey |-> appKey, DevEUI |-> devEUI]

CfgABP ==
  Config("ABP", <<"0", "1", "0", "2", "0", "3", "0", "4">>,
         Repeat(<<"a", "5">>, 16), <<>>, <<>>)

CfgABPShortKey ==
  Config("ABP", <<"0", "1", "0", "2", "0", "3", "0", "4">>,
         Repeat(<<"a", "5">>, 8), <<>>, <<>>)

CfgABPBadHex ==
  Config("ABP", <<"0", "1", "0", "2", "0", "3", "0", "g">>,
         Repeat(<<"a", "5">>, 16), <<>>, <<>>)

CfgOTAA ==
  Config("", <<>>, <<>>, Repeat(<<"1", "f">>, 16), Repeat(<<"7", "0">>, 8))

Configs == {CfgABP, CfgABPShortKey, CfgABPBadHex, CfgOTAA}

NoNode ==
  [registered |-> FALSE, Addr |-> <<>>, AppSKey |-> <<>>, AppKey |-> <<>>,
   DevEui |-> <<>>]

(* newNode up to the register_device command: the node it builds, or an    *)
(* error.                                                                  *)
BuildNode(cfg, gatewayFound) ==
  IF ~gatewayFound THEN [err |-> <<"no gateway named">>, node |-> NoNode]
  ELSE IF cfg.JoinType \in {"OTAA", ""} THEN
    LET appKey == HexDecodeString(cfg.AppKey)
        devEui == HexDecodeString(cfg.DevEUI)
    IN IF appKey.err # NoErr THEN [err |-> appKey.err, node |-> NoNode]
       ELSE IF devEui.err # NoErr THEN [err |-> devEui.err, node |-> NoNode]
       ELSE [err |-> NoErr,
             node |-> [registered |-> TRUE, Addr |-> <<>>, AppSKey |-> <<>>,
                       AppKey |-> appKey.bytes, DevEui |-> devEui.bytes]]
  ELSE IF cfg.JoinType = "ABP" THEN
    LET devAddr == HexDecodeString(cfg.DevAddr)
        appSKey == HexDecodeString(cfg.AppSKey)
    IN IF devAddr.err # NoErr THEN [err |-> devAddr.err, node |-> NoNode]
       ELSE IF appSKey.err # NoErr THEN [err |-> appSKey.err, node |-> NoNode]
       ELSE [err |-> NoErr,
             node |-> [registered |-> TRUE, Addr |-> devAddr.bytes,
                       AppSKey |-> appSKey.bytes, AppKey |-> <<>>,
                       DevEui |-> <<>>]]
  ELSE [err |-> NoErr,
        node |-> [registered |-> TRUE, Addr |-> <<>>, AppSKey |-> <<>>,
                  AppKey |-> <<>>, DevEui |-> <<>>]]

----------------------------------------------------------------------------
(* Raw frames offered to the gateway.  A frame is a prefix of              *)
(* MHDR | DevAddr (LE) | FCtrl | FCnt (LE) | tail, where the tail bytes    *)
(* are pairwise distinct so that every offset is recognisable.             *)

WireAddrs == {<<4, 3, 2, 1>>, <<1, 2, 3, 4>>}

FCtrls == {0, 130}

FCnts == {<<1, 2>>}

FullFrame(addr, fctrl, fcnt) ==
  <<64>> \o addr \o <<fctrl>> \o fcnt \o [i \in 1..(MaxFrameLen - 8) |-> 16 + i]

Frames ==
  { [buf |-> SubSeq(FullFrame(a, c, n), 1, cap), len |-> l] :
      <<a, c, n, l, cap>> \in
        { t \in WireAddrs \X FCtrls \X FCnts \X (0..MaxFrameLen) \X (0..MaxFrameLen) :
            t[5] \in {t[4], MaxFrameLen} } }

NoFrame == [buf |-> <<>>, len |-> 0 - 1]

----------------------------------------------------------------------------
(* gateway package: helpers of parseDataUplink *)

reverseByteArray(b) == [i \in 1..Len(b) |-> b[Len(b) + 1 - i]]

(* A lookup that does not compare the address.                             *)
matchDeviceAddr_anyDevice(devAddr, devs) ==
  { n \in Names : devs[n].registered }

(* The registered devices a frame address can be matched to.  Go iterates  *)
(* a map in an unspecified order, so with several equal addresses any of   *)
(* them can be the one returned.                                           *)
matchDeviceAddr(devAddr, devs) ==
  { n \in Names : devs[n].registered /\ devs[n].Addr = devAddr }

(* The frame counter read most-significant byte first.                     *)
BigEndianUint16(b) == 256 * b[1] + b[2]

LittleEndianUint16(b) == b[1] + 256 * b[2]

(* (uint32)(frameCnt): the zero extension of a 16-bit value.               *)
Uint32(x) == x % 65536

NoParsed ==
  [ok |-> FALSE, foptsLength |-> 0, frameCnt |-> 0, fPort |-> 0,
   framePayload |-> <<>>, devAddrBE |-> <<>>, plain |-> <<>>]

(* parseDataUplink, the field extraction after the device lookup: the      *)
(* fields, or the run-time fault of the first out-of-range index or slice. *)
ParseFields(p, devAddrBE) ==
  IF ~CanIndex(p, 5)
  THEN [fault |-> "index out of range", f |-> NoParsed]
  ELSE
    LET fctrl == At(p, 5)
        foptsLength == BitAnd(fctrl, 15)
        off == (8 + foptsLength) % 256
    IN IF ~CanSlice(p, 6, 8)
       THEN [fault |-> "slice bounds out of range", f |-> NoParsed]
       ELSE IF foptsLength # 0 /\ ~CanSlice(p, 8, off)
       THEN [fault |-> "slice bounds out of range", f |-> NoParsed]
       ELSE IF ~CanIndex(p, off)
       THEN [fault |-> "index out of range", f |-> NoParsed]
       ELSE IF ~CanSlice(p, (off + 1) % 256, p.len - 4)
       THEN [fault |-> "slice bounds out of range", f |-> NoParsed]
       ELSE [fault |-> "",
             f |-> [ok |-> TRUE,
                    foptsLength |-> foptsLength,
                    frameCnt |-> LittleEndianUint16(SliceBytes(p, 6, 8)),
                    fPort |-> At(p, off),
                    framePayload |-> SliceBytes(p, (off + 1) % 256, p.len - 4),
                    devAddrBE |-> devAddrBE,
                    plain |-> <<>>]]

(* types.AES128Key(device.AppSKey): Go's slice-to-array conversion faults  *)
(* on a slice shorter than the array and takes the first 16 bytes of a     *)
(* longer one.                                                             *)
AES128Key(key) ==
  IF Len(key) < 16 THEN [fault |-> "cannot convert slice to array", key |-> <<>>]
  ELSE [fault |-> "", key |-> SubSeq(key, 1, 16)]

(* The keystream byte for payload position i.  The cipher block function   *)
(* (AES-128 of the counter block holding direction, address, frame counter *)
(* and block index) is a library primitive; a keyed mix of the same inputs *)
(* stands for it.                                                          *)
KeystreamByte(key, addr, fCnt, i) ==
  (key[((i - 1) % 16) + 1] + addr[1] + 3 * addr[4] + (fCnt % 256) + (fCnt \div 256)
     + 7 * (((i - 1) \div 16) + 1) + i) % 256

(* crypto.DecryptUplink with a 16-byte key: XOR with the keystream; it has *)
(* no failure for a key of the array type.                                 *)
DecryptUplink(key, addr, fCnt, payload) ==
  [err |-> NoErr,
   out |-> [i \in 1..Len(payload) |->
              BitXor(payload[i], KeystreamByte(key, addr, fCnt, i))]]

----------------------------------------------------------------------------
(* The decoder script and the interpreter.  What a script does is its      *)
(* kind; steps is the number of statements it still has to run.            *)

ValueKinds == {"map", "number", "string", "list", "undefined"}

ErrorKinds == {"throw", "undefinedRef", "typeError", "stackLimit"}

PanicKinds == {"goPanic"}

ScriptKinds == ValueKinds \cup ErrorKinds \cup PanicKinds \cup {"loop"}

NoScript == [kind |-> "none", steps |-> 0]

(* A script that ends runs MaxSteps statements before it does.             *)
Scripts == { [kind |-> k, steps |-> MaxSteps] : k \in ScriptKinds }

(* An unbuffered Interrupt channel.                                        *)
InterruptCap_unbuffered == 1 - 1

InterruptCap == 1

(* The mapping the script Decode(fPort, bytes) builds from its arguments.  *)
ScriptMap(fPort, bytes) ==
  {<<"port", fPort>>} \cup (IF Len(bytes) > 0 THEN {<<"v", bytes[1]>>} ELSE {})

JsValue(t, kv) == [type |-> t, kv |-> kv]

(* vm.Set(k, v) for the two bindings, fPort (a uint8) and bytes (a byte    *)
(* slice): the interpreter has a value for both.                           *)
VmSet(fPort, bytes) == [err |-> NoErr, panic |-> ""]

(* vm.Run(script) once the script has run its statements: the value, the   *)
(* error the interpreter turns a script exception into, or a Go panic that *)
(* leaves the interpreter.                                                 *)
VmRun(kind, fPort, bytes) ==
  CASE kind = "map" ->
         [val |-> JsValue("object", ScriptMap(fPort, bytes)), err |-> NoErr, panic |-> ""]
    [] kind = "number" ->
         [val |-> JsValue("number", {}), err |-> NoErr, panic |-> ""]
    [] kind = "string" ->
         [val |-> JsValue("string", {}), err |-> NoErr, panic |-> ""]
    [] kind = "list" ->
         [val |-> JsValue("array", {}), err |-> NoErr, panic |-> ""]
    [] kind = "undefined" ->
         [val |-> JsValue("undefined", {}), err |-> NoErr, panic |-> ""]
    [] kind = "throw" ->
         [val |-> JsValue("undefined", {}), err |-> <<"Error: bad payload">>, panic |-> ""]
    [] kind = "undefinedRef" ->
         [val |-> JsValue("undefined", {}),
          err |-> <<"ReferenceError: 'x' is not defined">>, panic |-> ""]
    [] kind = "typeError" ->
         [val |-> JsValue("undefined", {}),
          err |-> <<"TypeError: 'undefined' is not a function">>, panic |-> ""]
    [] kind = "stackLimit" ->
         [val |-> JsValue("undefined", {}),
          err |-> <<"RangeError: Maximum call stack size exceeded">>, panic |-> ""]
    [] OTHER ->
         [val |-> JsValue("undefined", {}), err |-> NoErr,
          panic |-> "runtime error: invalid memory address or nil pointer dereference"]

(* otto Value.Export: the Go value of a script value.                      *)
Export(val) ==
  CASE val.type = "object" -> GoValue("map[string]interface{}", val.kv)
    [] val.type = "number" -> GoValue("float64", {})
    [] val.type = "string" -> GoValue("string", {})
    [] val.type = "array" -> GoValue("[]interface{}", {})
    [] OTHER -> GoNil

(* The function the watchdog sends on vm.Interrupt: it builds an error     *)
(* value and drops it, so calling it neither panics nor stops the run.     *)
InterruptFunc == [panics |-> FALSE]

NoExec == [out |-> GoNil, err |-> NoErr, panic |-> ""]

(* executeDecoder without its deferred recover.                            *)
Recover_absent(r) == r

(* executeDecoder's deferred recover: a panic becomes the returned error;  *)
(* the named result out keeps its zero value.                              *)
Recover(r) ==
  IF r.panic # "" THEN [out |-> GoNil, err |-> <<r.panic>>, panic |-> ""] ELSE r

(* executeDecoder when binding a variable fails (before the watchdog is    *)
(* started).                                                               *)
ExecuteDecoderSet(set) ==
  Recover(IF set.panic # "" THEN [out |-> GoNil, err |-> NoErr, panic |-> set.panic]
          ELSE [out |-> GoNil, err |-> set.err, panic |-> ""])

(* executeDecoder from the return of vm.Run on.                            *)
ExecuteDecoderRun(run) ==
  Recover(IF run.panic # "" THEN [out |-> GoNil, err |-> NoErr, panic |-> run.panic]
          ELSE IF run.err # NoErr THEN [out |-> GoNil, err |-> run.err, panic |-> ""]
          ELSE [out |-> Export(run.val), err |-> NoErr, panic |-> ""])

NoConv == [readings |-> NilMap, err |-> NoErr]

(* convertBinaryToMap returning a nil map for a result of the wrong type.  *)
convertBinaryToMap_nilMap(e) ==
  IF e.err # NoErr THEN [readings |-> NilMap, err |-> e.err]
  ELSE IF e.out.type = "map[string]interface{}"
  THEN [readings |-> [isNil |-> FALSE, kv |-> e.out.kv], err |-> NoErr]
  ELSE [readings |-> NilMap, err |-> <<"decoder returned unexpected data type">>]

(* convertBinaryToMap, given what executeDecoder returned.                 *)
convertBinaryToMap(e) ==
  IF e.err # NoErr THEN [readings |-> NilMap, err |-> e.err]
  ELSE IF e.out.type = "map[string]interface{}"
  THEN [readings |-> [isNil |-> FALSE, kv |-> e.out.kv], err |-> NoErr]
  ELSE [readings |-> EmptyMap, err |-> <<"decoder returned unexpected data type">>]

(* decodePayload: a failure to read the script file is returned; the error *)
(* of convertBinaryToMap is assigned and not returned.                     *)
decodePayload(readOK, c) ==
  IF ~readOK THEN [readings |-> EmptyMap, err |-> <<"open: no such file or directory">>]
  ELSE [readings |-> c.readings, err |-> NoErr]

NoResult == [name |-> "", readings |-> NilMap, err |-> NoErr]

(* parseDataUplink from the return of decodePayload on.                    *)
ParseReturn(name, d) ==
  IF d.err # NoErr
  THEN [name |-> "", readings |-> EmptyMap,
        err |-> Errorf("Error decoding payload", d.err)]
  ELSE [name |-> name, readings |-> d.readings, err |-> NoErr]

----------------------------------------------------------------------------
(* State *)

Init ==
  /\ devices = [n \in Names |-> NoNode]
  /\ pc = "idle"
  /\ callNo = 0
  /\ frame = NoFrame
  /\ dev = ""
  /\ parsed = NoParsed
  /\ script = NoScript
  /\ taken = FALSE
  /\ wd = [c \in Calls |-> "none"]
  /\ Interrupt = [c \in Calls |-> <<>>]
  /\ exec = NoExec
  /\ conv = NoConv
  /\ result = NoResult
  /\ fault = ""

(* newNode: build the node and register it with the gateway under its      *)
(* resource name; on an error nothing is registered.                       *)
NewNode(name, cfg, gatewayFound) ==
  /\ pc = "idle"
  /\ LET b == BuildNode(cfg, gatewayFound)
     IN devices' = IF b.err = NoErr THEN [devices EXCEPT ![name] = b.node]
                   ELSE devices
  /\ UNCHANGED <<pc, callNo, frame, dev, parsed, script, taken, wd, Interrupt,
                 exec, conv, result, fault>>

(* The caller has the result of parseDataUplink; the frame and the call's  *)
(* locals are gone, the gateway waits for the next frame.                  *)
ReturnToCaller ==
  /\ pc = "returned"
  /\ pc' = "idle"
  /\ frame' = NoFrame
  /\ dev' = ""
  /\ parsed' = NoParsed
  /\ script' = NoScript
  /\ taken' = FALSE
  /\ exec' = NoExec
  /\ conv' = NoConv
  /\ result' = NoResult
  /\ fault' = ""
  /\ UNCHANGED <<devices, callNo, wd, Interrupt>>

(* The call ends with a run-time fault that nothing recovers.              *)
Panic(p, d, f, s, msg) ==
  /\ pc' = "panicked"
  /\ frame' = p
  /\ dev' = d
  /\ parsed' = f
  /\ script' = s
  /\ fault' = msg
  /\ taken' = FALSE
  /\ exec' = NoExec
  /\ conv' = NoConv
  /\ result' = NoResult
  /\ UNCHANGED <<wd, Interrupt>>

(* The call returns r without having started the interpreter's run.        *)
Return(p, d, f, s, e, c, r) ==
  /\ pc' = "returned"
  /\ frame' = p
  /\ dev' = d
  /\ parsed' = f
  /\ script' = s
  /\ fault' = ""
  /\ taken' = FALSE
  /\ exec' = e
  /\ conv' = c
  /\ result' = r
  /\ UNCHANGED <<wd, Interrupt>>

(* parseDataUplink from its entry to the start of vm.Run inside            *)
(* executeDecoder (or to its return or fault, when it gets no further).    *)
(* readOK and s are the environment: whether the device's decoder file can *)
(* be read, and the script in it.                                          *)
ParseDataUplink(p) ==
  /\ pc = "idle"
  /\ callNo < MaxCalls
  /\ callNo' = callNo + 1
  /\ UNCHANGED devices
  /\ IF ~CanSlice(p, 1, 5)
     THEN Panic(p, "", NoParsed, NoScript, "slice bounds out of range")
     ELSE
       LET devAddrBE == reverseByteArray(SliceBytes(p, 1, 5))
           found == matchDeviceAddr(devAddrBE, devices)
       IN IF found = {}
          THEN Return(p, "", NoParsed, NoScript, NoExec, NoConv,
                      [name |-> "", readings |-> EmptyMap, err |-> NoErr])
          ELSE \E d \in found :
            LET pf == ParseFields(p, devAddrBE)
                k == AES128Key(devices[d].AppSKey)
            IN IF pf.fault # ""
               THEN Panic(p, d, NoParsed, NoScript, pf.fault)
               ELSE IF k.fault # ""
               THEN Panic(p, d, pf.f, NoScript, k.fault)
               ELSE \E readOK \in BOOLEAN, s \in Scripts :
                 LET dec == DecryptUplink(k.key, devAddrBE, Uint32(pf.f.frameCnt),
                                          pf.f.framePayload)
                     f == [pf.f EXCEPT !.plain = dec.out]
                     set == VmSet(pf.f.fPort, dec.out)
                     e == ExecuteDecoderSet(set)
                 IN IF dec.err # NoErr
                    THEN Return(p, d, pf.f, NoScript, NoExec, NoConv,
                                [name |-> "", readings |-> EmptyMap,
                                 err |-> Errorf("error while decrypting uplink message",
                                                dec.err)])
                    ELSE IF ~readOK
                    THEN Return(p, d, f, [kind |-> "unreadable", steps |-> 0],
                                NoExec, NoConv,
                                ParseReturn(d, decodePayload(FALSE, NoConv)))
                    ELSE IF set.err # NoErr \/ set.panic # ""
                    THEN IF e.panic # ""
                         THEN Panic(p, d, f, s, e.panic)
                         ELSE Return(p, d, f, s, e, convertBinaryToMap(e),
                                     ParseReturn(d, decodePayload(TRUE,
                                                   convertBinaryToMap(e))))
                    ELSE
                      /\ pc' = "run"
                      /\ frame' = p
                      /\ dev' = d
                      /\ parsed' = f
                      /\ script' = s
                      /\ fault' = ""
                      /\ taken' = FALSE
                      /\ exec' = NoExec
                      /\ conv' = NoConv
                      /\ result' = NoResult
                      /\ Interrupt' = [Interrupt EXCEPT ![callNo + 1] = <<>>]
                      /\ wd' = [wd EXCEPT ![callNo + 1] = "sleep"]

(* The end of the interpreter's run (vm.Run returns or panics with r):     *)
(* the rest of executeDecoder, convertBinaryToMap, decodePayload and       *)
(* parseDataUplink.                                                        *)
Finish(r) ==
  LET e == ExecuteDecoderRun(r)
      c == convertBinaryToMap(e)
  IN /\ IF e.panic # ""
        THEN /\ pc' = "panicked"
             /\ fault' = e.panic
             /\ exec' = NoExec
             /\ conv' = NoConv
             /\ result' = NoResult
        ELSE /\ pc' = "returned"
             /\ fault' = ""
             /\ exec' = e
             /\ conv' = c
             /\ result' = ParseReturn(dev, decodePayload(TRUE, c))

(* One statement of the script.  Before it the interpreter polls           *)
(* vm.Interrupt without blocking and calls the function it receives; a     *)
(* function that panics ends the run, any other lets it go on.             *)
VmStep ==
  /\ pc = "run"
  /\ script.kind = "loop" \/ script.steps > 0
  /\ LET got == Interrupt[callNo] # <<>>
         halt == got /\ Head(Interrupt[callNo]).panics
     IN /\ Interrupt' = IF got THEN [Interrupt EXCEPT ![callNo] = Tail(@)]
                        ELSE Interrupt
        /\ taken' = (taken \/ got)
        /\ IF halt
           THEN /\ Finish([val |-> JsValue("undefined", {}), err |-> NoErr,
                           panic |-> "execution timeout"])
                /\ UNCHANGED script
           ELSE /\ script' = IF script.kind = "loop" THEN script
                             ELSE [script EXCEPT !.steps = @ - 1]
                /\ UNCHANGED <<pc, fault, exec, conv, result>>
  /\ UNCHANGED <<devices, callNo, frame, dev, parsed, wd>>

(* vm.Run is through with the script.                                      *)
VmFinish ==
  /\ pc = "run"
  /\ script.kind # "loop"
  /\ script.steps = 0
  /\ Finish(VmRun(script.kind, parsed.fPort, parsed.plain))
  /\ UNCHANGED <<devices, callNo, frame, dev, parsed, script, taken, wd, Interrupt>>

(* The watchdog goroutine of call c: time.Sleep is over.                   *)
WatchdogWake(c) ==
  /\ pc # "panicked"
  /\ wd[c] = "sleep"
  /\ wd' = [wd EXCEPT ![c] = "send"]
  /\ UNCHANGED <<devices, pc, callNo, frame, dev, parsed, script, taken,
                 Interrupt, exec, conv, result, fault>>

(* The watchdog goroutine of call c: the send on vm.Interrupt, which needs *)
(* room in the channel's buffer; the goroutine ends after it.              *)
WatchdogSend(c) ==
  /\ pc # "panicked"
  /\ wd[c] = "send"
  /\ Len(Interrupt[c]) < InterruptCap
  /\ Interrupt' = [Interrupt EXCEPT ![c] = Append(@, InterruptFunc)]
  /\ wd' = [wd EXCEPT ![c] = "done"]
  /\ UNCHANGED <<devices, pc, callNo, frame, dev, parsed, script, taken,
                 exec, conv, result, fault>>

Next ==
  \/ \E n \in Names, cfg \in Configs, g \in BOOLEAN : NewNode(n, cfg, g)
  \/ ReturnToCaller
  \/ \E p \in Frames : ParseDataUplink(p)
  \/ VmStep
  \/ VmFinish
  \/ \E c \in Calls : WatchdogWake(c)
  \/ \E c \in Calls : WatchdogSend(c)

Spec == Init /\ [][Next]_vars

(* The Go scheduler runs every goroutine that can run: the interpreter's   *)
(* goroutine and the watchdogs make progress while they are not blocked.   *)
FairSpec ==
  /\ Spec
  /\ WF_vars(VmStep)
  /\ WF_vars(VmFinish)
  /\ \A c \in Calls : WF_vars(WatchdogWake(c)) /\ WF_vars(WatchdogSend(c))

----------------------------------------------------------------------------
(* Properties.  They are stated on the raw frame and the registry, apart   *)
(* from the operators above.                                               *)

InCall == frame # NoFrame

HasAddr(p) == Len(p.buf) >= 5

WireAddrBE(p) == <<p.buf[5], p.buf[4], p.buf[3], p.buf[2]>>

Known(p) ==
  HasAddr(p) /\ \E n \in Names : devices[n].registered /\ devices[n].Addr = WireAddrBE(p)

OptLen(p) == p.buf[6] % 16

IgnoredResult == [name |-> "", readings |-> [isNil |-> FALSE, kv |-> {}], err |-> <<>>]

(* C1: a frame whose reordered device address is the Addr of no registered *)
(* device makes parseDataUplink return an empty name, an empty non-nil     *)
(* map and a nil error, whatever its length and options-length field, and  *)
(* neither decryption nor a decoder script is run for it.                  *)
C1_UnknownDeviceIgnored ==
  (InCall /\ HasAddr(frame) /\ ~Known(frame)) =>
    /\ pc = "returned"
    /\ result = IgnoredResult
    /\ ~parsed.ok
    /\ parsed.plain = <<>>
    /\ script.kind = "none"
    /\ wd[callNo] = "none"

C1_Witness ==
  /\ pc = "returned"
  /\ HasAddr(frame)
  /\ ~Known(frame)
  /\ frame.len = 6
  /\ OptLen(frame) = 2
  /\ \E n \in Names : devices[n].registered /\ Len(devices[n].Addr) = 4
  /\ result = IgnoredResult

TooShort(p) == p.len < 12 \/ p.len < 12 + OptLen(p)

(* C2: a raw input shorter than the minimum header size, or shorter than   *)
(* its options-length field implies, makes parseDataUplink return a        *)
(* non-nil (MalformedFrame) error; it neither faults nor returns a nil     *)
(* error, whether or not the address is that of a registered device.       *)
C2_ShortFrameIsMalformed ==
  (InCall /\ TooShort(frame)) => (pc = "returned" /\ result.err # <<>>)

(* C3: when the script loops forever, once the watchdog's interrupt has    *)
(* been taken by the interpreter at a checkpoint the run is aborted and    *)
(* executeDecoder has returned a Timeout error.                            *)
C3_InterruptAbortsLoop ==
  (script.kind = "loop" /\ taken) => (pc = "returned" /\ exec.err # <<>>)

(* C4: after a failed decode for a known device (file unreadable, script   *)
(* error, stack limit, timeout, wrong result shape) parseDataUplink        *)
(* returns a non-nil error with an empty name and an empty map; every      *)
(* return is (name, the script's mapping, nil) or ("", empty map, error).  *)
C4_NoResultOnFailedDecode ==
  (pc = "returned" /\ script.kind \notin {"none", "map"}) =>
    /\ result.err # <<>>
    /\ result.name = ""
    /\ result.readings = [isNil |-> FALSE, kv |-> {}]

(* C5: a matched device whose application session key has not exactly 16   *)
(* bytes makes parseDataUplink return a decryption error, not fault; with  *)
(* a 16-byte key decryption never fails, whatever the ciphertext.          *)
C5_KeyLengthDecidesDecryption ==
  (InCall /\ dev # "" /\ frame.len >= 13 /\ frame.len >= 13 + OptLen(frame)) =>
    IF Len(devices[dev].AppSKey) # 16
    THEN /\ pc = "returned"
         /\ result.err # <<>>
         /\ result.err[1] = "error while decrypting uplink message"
    ELSE /\ pc # "panicked"
         /\ Len(parsed.plain) = Len(parsed.framePayload)
         /\ (pc = "returned" /\ result.err # <<>>) =>
              result.err[1] # "error while decrypting uplink message"

AbnormalKinds == {"throw", "undefinedRef", "typeError", "stackLimit", "goPanic"}

(* C6: an abnormal termination inside the interpreter (thrown value,       *)
(* undefined variable, type error, stack depth limit, Go panic) leaves     *)
(* executeDecoder as a non-nil error with a non-empty message and a nil    *)
(* result; no panic gets out of executeDecoder or convertBinaryToMap.      *)
C6_InterpreterFaultsBecomeErrors ==
  (InCall /\ script.kind \in AbnormalKinds /\ pc # "run") =>
    /\ pc = "returned"
    /\ fault = ""
    /\ exec.err # <<>>
    /\ exec.err[1] # ""
    /\ exec.out = [type |-> "nil", kv |-> {}]
    /\ conv.err = exec.err

C6_Witness ==
  /\ pc = "returned"
  /\ script.kind = "goPanic"
  /\ exec.err # <<>>
  /\ exec.out.type = "nil"

(* C7: when the script's exported result is not a string-keyed mapping     *)
(* (number, string, list, undefined) convertBinaryToMap returns the        *)
(* unexpected-data-type error with an empty, non-nil map; it returns a nil *)
(* error only for a mapping, and then returns that mapping.                *)
C7_ResultShape ==
  (pc = "returned" /\ script.kind \in ScriptKinds) =>
    /\ script.kind \in {"number", "string", "list", "undefined"} =>
         /\ conv.err = <<"decoder returned unexpected data type">>
         /\ conv.readings = [isNil |-> FALSE, kv |-> {}]
    /\ conv.err = <<>> =>
         /\ script.kind = "map"
         /\ exec.out.type = "map[string]interface{}"
         /\ conv.readings = [isNil |-> FALSE, kv |-> exec.out.kv]
         /\ <<"port", frame.buf[9 + OptLen(frame)]>> \in conv.readings.kv

C7_Witness ==
  /\ pc = "returned"
  /\ script.kind = "list"
  /\ conv.err # <<>>
  /\ conv.readings.kv = {}
  /\ ~conv.readings.isNil

RunOver(c) == wd[c] # "none" /\ (c < callNo \/ pc # "run")

(* C8: the watchdog never fires after execution has completed: once vm.Run *)
(* of a call has returned, no send on that call's Interrupt channel        *)
(* happens.                                                                *)
C8_NoSendAfterRun ==
  [][\A c \in Calls : RunOver(c) => Interrupt'[c] = Interrupt[c]]_vars

ParsedAsStated(p) ==
  /\ parsed.ok
  /\ parsed.devAddrBE = WireAddrBE(p)
  /\ parsed.foptsLength = OptLen(p)
  /\ parsed.frameCnt = p.buf[7] + 256 * p.buf[8]
  /\ parsed.frameCnt < 65536
  /\ parsed.fPort = p.buf[9 + OptLen(p)]
  /\ parsed.framePayload = [i \in 1..(p.len - 13 - OptLen(p)) |-> p.buf[9 + OptLen(p) + i]]

(* C9 as claimed: a frame from a known device of at least 12 bytes plus    *)
(* its options length n is parsed: address = bytes 1..4 reversed, counter  *)
(* = byte 6 + 256 * byte 7, port = the byte at offset 8+n, ciphertext =    *)
(* the bytes from offset 9+n up to the trailing 4-byte tag.                *)
C9_ParsedFrom12 ==
  (InCall /\ Known(frame) /\ frame.len >= 12 /\ frame.len >= 12 + OptLen(frame))
    => ParsedAsStated(frame)

(* C9 as amended: the same for a frame from a known device of at least 13  *)
(* bytes plus its options length n.                                        *)
C9_ParsedFrom13 ==
  (InCall /\ Known(frame) /\ frame.len >= 13 /\ frame.len >= 13 + OptLen(frame))
    => ParsedAsStated(frame)

C9_Witness ==
  /\ pc = "returned"
  /\ result.name = dev
  /\ Known(frame)
  /\ frame.len = 16
  /\ OptLen(frame) = 2
  /\ parsed.ok
  /\ parsed.frameCnt = 513
  /\ Len(parsed.framePayload) = 1

WatchdogCanSend ==
  /\ \A c \in Calls :
       /\ (wd[c] = "send" /\ pc # "panicked") => ENABLED WatchdogSend(c)
       /\ wd[c] \in {"none", "sleep", "send"} => Interrupt[c] = <<>>
       /\ Len(Interrupt[c]) <= 1
  /\ (pc = "run" /\ script.kind # "loop" /\ script.steps = 0) => ENABLED VmFinish

(* C10: the watchdog goroutine of every executeDecoder call terminates:    *)
(* its one send on the Interrupt channel of its call never blocks, whether *)
(* the interpreter still runs, has returned or never reads the channel,    *)
(* and the return of executeDecoder does not wait for the watchdog.        *)
C10_WatchdogTerminates ==
  /\ []WatchdogCanSend
  /\ \A c \in Calls : (wd[c] = "sleep") ~> (wd[c] = "done" \/ pc = "panicked")

C10_Witness ==
  \E c \in Calls :
    /\ c < callNo
    /\ wd[c] = "done"
    /\ Len(Interrupt[c]) = 1
    /\ pc = "run"
    /\ wd[callNo] = "send"
    /\ Interrupt[callNo] = <<>>

====
